---- MODULE Spec2Model ----
(***************************************************************************)
(* Model of raw_tty: capture of a terminal's attributes (TtyModeGuard),    *)
(* mode switches derived from the captured value, restore on drop, and the *)
(* TtyWithGuard wrapper that owns a resource together with its guard.      *)
(***************************************************************************)
EXTENDS Integers, Sequences, FiniteSets

\* ------------------------------------------------------------------ bounds
MaxSwitch == 2     \* attribute writes issued by mode switches, per object
MaxIO == 1         \* bytes available on a resource, and bytes it accepts

\* the client program holds up to two guards or wrappers, as in the case of
\* two guards outstanding on one device
Slots == {1, 2}

\* ------------------------------------------------------- handles, devices
TtyFds == {0, 1}      \* descriptors that refer to a terminal device
NotATty == 3       \* a descriptor tcgetattr / tcsetattr reject
Fds == TtyFds \cup {NotATty}

\* ------------------------------------------------------------ libc::termios
IFlags == {"ICRNL", "IXON", "IXOFF"}
OFlags == {"OPOST", "ONLCR"}
LFlags == {"ECHO", "ICANON", "ISIG", "TOSTOP"}
CSizes == {7, 8}

Termios ==
  [iflag : SUBSET IFlags, oflag : SUBSET OFlags, lflag : SUBSET LFlags,
   csize : CSizes, parenb : BOOLEAN, vmin : 0..1, vtime : 0..1]

\* mem::zeroed()
Zeroed ==
  [iflag |-> {}, oflag |-> {}, lflag |-> {}, csize |-> 7, parenb |-> FALSE,
   vmin |-> 0, vtime |-> 0]

Cooked ==
  [iflag |-> {"ICRNL", "IXON"}, oflag |-> {"OPOST", "ONLCR"},
   lflag |-> {"ECHO", "ICANON", "ISIG"}, csize |-> 8, parenb |-> FALSE,
   vmin |-> 1, vtime |-> 0]

SevenBit ==
  [iflag |-> {"ICRNL", "IXOFF"}, oflag |-> {"OPOST"},
   lflag |-> {"ECHO", "ICANON", "ISIG", "TOSTOP"}, csize |-> 7, parenb |-> TRUE,
   vmin |-> 0, vtime |-> 1]

\* attributes a terminal may have when the program starts
InitAttrs == {Cooked, SevenBit}

\* attributes another program may set on the terminal (stty -echo -ixon)
OutsideAttrs ==
  {[Cooked EXCEPT !.lflag = {"ICANON", "ISIG"}, !.iflag = {"ICRNL"}]}

\* caller-supplied closures FnOnce(Termios) -> Termios
Transforms == {"noecho", "nocanon", "flipnl"}

Apply(f, t) ==
  CASE f = "noecho"  -> [t EXCEPT !.lflag = @ \ {"ECHO"}]
    [] f = "nocanon" -> [t EXCEPT !.lflag = @ \ {"ICANON"}, !.vmin = 1]
    [] f = "flipnl"  -> [t EXCEPT !.oflag = IF "ONLCR" \in @
                                                THEN @ \ {"ONLCR"}
                                                ELSE @ \cup {"ONLCR"}]
    [] OTHER -> t

\* ----------------------------------------------------------------- mod util
is_minus_one(t) == t = -1

convert_to_result(t) == IF is_minus_one(t) THEN "err" ELSE "ok"

\* ----------------------------------------------------------------- mod attr
\* The platform's answer to a call on fd: -1 when fd is no terminal or the
\* call fails for another reason (fails = TRUE: EINTR, EIO, ...), else 0.
tcgetattr(fd, fails) == IF fd \in TtyFds /\ ~fails THEN 0 ELSE -1

tcsetattr(fd, fails) == IF fd \in TtyFds /\ ~fails THEN 0 ELSE -1

cfmakeraw(t) ==
  [t EXCEPT !.iflag = @ \ {"ICRNL", "IXON"},
            !.oflag = @ \ {"OPOST"},
            !.lflag = @ \ {"ECHO", "ICANON", "ISIG"},
            !.csize = 8, !.parenb = FALSE, !.vmin = 1, !.vtime = 0]

get_terminal_attr(d, fd, fails) ==
  LET rc == tcgetattr(fd, fails)
  IN  [res |-> convert_to_result(rc), dev |-> d,
       termios |-> IF rc = 0 THEN d[fd] ELSE Zeroed,
       sys |-> <<IF rc = 0 THEN "get_ok" ELSE "get_err">>]

\* as set_terminal_attr, but calling tcsetattr once more when it fails
set_terminal_attr_retry(d, fd, termios, fails) ==
  LET rc1 == tcsetattr(fd, fails)
      rc == IF rc1 = 0 THEN rc1 ELSE tcsetattr(fd, fails)
  IN  [res |-> convert_to_result(rc),
       dev |-> IF rc = 0 THEN [d EXCEPT ![fd] = termios] ELSE d,
       sys |-> IF rc1 = 0 THEN <<"set_ok">>
               ELSE <<"set_err", IF rc = 0 THEN "set_ok" ELSE "set_err">>]

set_terminal_attr(d, fd, termios, fails) ==
  LET rc == tcsetattr(fd, fails)
  IN  [res |-> convert_to_result(rc),
       dev |-> IF rc = 0 THEN [d EXCEPT ![fd] = termios] ELSE d,
       sys |-> <<IF rc = 0 THEN "set_ok" ELSE "set_err">>]

\* as raw_terminal_attr, but toggling ECHO (c_lflag ^= ECHO) after cfmakeraw
raw_terminal_attr_toggle(termios) ==
  LET t == cfmakeraw(termios)
  IN  [t EXCEPT !.lflag = IF "ECHO" \in termios.lflag THEN @
                                                      ELSE @ \cup {"ECHO"}]

raw_terminal_attr(termios) == cfmakeraw(termios)

\* current attributes of fd's device as the kernel holds them
Live(d, fd) == IF fd \in TtyFds THEN d[fd] ELSE Zeroed

\* ------------------------------------------------------------- TtyModeGuard
NoGuard == [ios |-> Zeroed, fd |-> -1]

\* as TtyModeGuard::new, but the guard exists, with zeroed attributes, before
\* the read, and is dropped when the read fails
TtyModeGuard_new_early(d, fd, fails) ==
  LET r == get_terminal_attr(d, fd, fails)
      w == set_terminal_attr(r.dev, fd, Zeroed, fails)
  IN  IF r.res = "ok"
      THEN [res |-> "ok", dev |-> r.dev,
            guard |-> [ios |-> r.termios, fd |-> fd], sys |-> r.sys]
      ELSE [res |-> "err", dev |-> w.dev, guard |-> NoGuard,
            sys |-> r.sys \o <<IF w.res = "ok" THEN "restore_ok"
                                               ELSE "restore_err">>]

\* as TtyModeGuard::new, but switching to raw mode at once
TtyModeGuard_new_raw(d, fd, fails) ==
  LET r == get_terminal_attr(d, fd, fails)
      w == set_terminal_attr(r.dev, fd, raw_terminal_attr(r.termios), fails)
  IN  IF r.res = "ok"
      THEN [res |-> "ok", dev |-> w.dev,
            guard |-> [ios |-> r.termios, fd |-> fd], sys |-> r.sys \o w.sys]
      ELSE [res |-> "err", dev |-> r.dev, guard |-> NoGuard, sys |-> r.sys]

TtyModeGuard_new(d, fd, fails) ==
  LET r == get_terminal_attr(d, fd, fails)
  IN  [res |-> r.res, dev |-> r.dev,
       guard |-> IF r.res = "ok" THEN [ios |-> r.termios, fd |-> fd]
                                 ELSE NoGuard,
       sys |-> r.sys]

\* as set_raw_mode, but keeping the written attributes in self.ios
TtyModeGuard_set_raw_mode_keep(d, g, fails) ==
  LET ios == raw_terminal_attr(g.ios)
      w == set_terminal_attr(d, g.fd, ios, fails)
  IN  [res |-> w.res, dev |-> w.dev, guard |-> [g EXCEPT !.ios = ios],
       sys |-> w.sys]

\* as set_raw_mode, but deriving from the attributes the device has now
TtyModeGuard_set_raw_mode_live(d, g, fails) ==
  LET ios == raw_terminal_attr(Live(d, g.fd))
      w == set_terminal_attr(d, g.fd, ios, fails)
  IN  [res |-> w.res, dev |-> w.dev, guard |-> g, sys |-> w.sys]

TtyModeGuard_set_raw_mode(d, g, fails) ==
  LET ios == raw_terminal_attr(g.ios)
      w == set_terminal_attr(d, g.fd, ios, fails)
  IN  [res |-> w.res, dev |-> w.dev, guard |-> g, sys |-> w.sys]

\* as modify_mode, but handing the closure the attributes the device has now
TtyModeGuard_modify_mode_live(d, g, f, fails) ==
  LET ios == Apply(f, Live(d, g.fd))
      w == set_terminal_attr(d, g.fd, ios, fails)
  IN  [res |-> w.res, dev |-> w.dev, guard |-> g, sys |-> w.sys]

\* as modify_mode, but keeping the written attributes in self.ios
TtyModeGuard_modify_mode_keep(d, g, f, fails) ==
  LET ios == Apply(f, g.ios)
      w == set_terminal_attr(d, g.fd, ios, fails)
  IN  [res |-> w.res, dev |-> w.dev, guard |-> [g EXCEPT !.ios = ios],
       sys |-> w.sys]

TtyModeGuard_modify_mode(d, g, f, fails) ==
  LET ios == Apply(f, g.ios)
      w == set_terminal_attr(d, g.fd, ios, fails)
  IN  [res |-> w.res, dev |-> w.dev, guard |-> g, sys |-> w.sys]

\* as drop, but writing the stored attributes with the cooked-mode flags set
TtyModeGuard_drop_cooked(d, g, fails) ==
  LET ios == [g.ios EXCEPT !.lflag = @ \cup {"ECHO", "ICANON", "ISIG"},
                           !.oflag = @ \cup {"OPOST"}]
      w == set_terminal_attr(d, g.fd, ios, fails)
  IN  [res |-> IF w.res = "ok" THEN "ok" ELSE "panic",
       dev |-> w.dev,
       sys |-> <<IF w.res = "ok" THEN "restore_ok" ELSE "restore_err">>]

\* as drop, but putting back only the local and output flags, on top of the
\* attributes the device has now
TtyModeGuard_drop_merge(d, g, fails) ==
  LET ios == [Live(d, g.fd) EXCEPT !.lflag = g.ios.lflag,
                                   !.oflag = g.ios.oflag]
      w == set_terminal_attr(d, g.fd, ios, fails)
  IN  [res |-> IF w.res = "ok" THEN "ok" ELSE "panic",
       dev |-> w.dev,
       sys |-> <<IF w.res = "ok" THEN "restore_ok" ELSE "restore_err">>]

\* as drop, but ignoring the result of the write
TtyModeGuard_drop_ignore(d, g, fails) ==
  LET w == set_terminal_attr(d, g.fd, g.ios, fails)
  IN  [res |-> "ok", dev |-> w.dev,
       sys |-> <<IF w.res = "ok" THEN "restore_ok" ELSE "restore_err">>]

\* .unwrap(): a failed write panics
TtyModeGuard_drop(d, g, fails) ==
  LET w == set_terminal_attr(d, g.fd, g.ios, fails)
  IN  [res |-> IF w.res = "ok" THEN "ok" ELSE "panic",
       dev |-> w.dev,
       sys |-> <<IF w.res = "ok" THEN "restore_ok" ELSE "restore_err">>]

\* ------------------------------------------------- the wrapped resource T
NoRes == [fd |-> -1, rd |-> 0, wr |-> 0]

Resource(fd) == [fd |-> fd, rd |-> 0, wr |-> 0]

as_raw_fd(r) == r.fd

\* Read::read on T: one byte while input is left, then 0
R_read(r) ==
  LET n == IF r.rd < MaxIO THEN 1 ELSE 0
  IN  [val |-> n, r |-> [r EXCEPT !.rd = @ + n]]

\* Write::write on T: one byte accepted
R_write(r) == [val |-> 1, r |-> [r EXCEPT !.wr = @ + 1]]

\* the release of a T: which resource, after how many of the operation's
\* attribute calls, and the attributes the guarded device had at that moment
Release(r, sys, d, fd) ==
  [fd |-> r.fd, at |-> Len(sys), seen |-> Live(d, fd)]

\* ------------------------------------------------------------- TtyWithGuard
deref(x) == x.inner

\* as deref_mut, but handing out a resource made anew from the guard's handle
deref_mut_fresh(x) == Resource(x.guard.fd)

deref_mut(x) == x.inner

\* a write through the &mut R that deref_mut hands out
deref_mut_set(x, r) == [x EXCEPT !.inner = r]

\* as TtyWithGuard::new, but not releasing tty when the read fails
TtyWithGuard_new_keep(d, tty, fails) ==
  LET g == TtyModeGuard_new(d, as_raw_fd(tty), fails)
  IN  IF g.res = "ok"
      THEN [res |-> "ok", dev |-> g.dev,
            x |-> [inner |-> tty, guard |-> g.guard],
            sys |-> g.sys, rel |-> <<>>]
      ELSE [res |-> "err", dev |-> g.dev,
            x |-> [inner |-> NoRes, guard |-> NoGuard],
            sys |-> g.sys, rel |-> <<>>]

TtyWithGuard_new(d, tty, fails) ==
  LET g == TtyModeGuard_new(d, as_raw_fd(tty), fails)
  IN  IF g.res = "ok"
      THEN [res |-> "ok", dev |-> g.dev,
            x |-> [inner |-> tty, guard |-> g.guard],
            sys |-> g.sys, rel |-> <<>>]
      ELSE [res |-> "err", dev |-> g.dev,
            x |-> [inner |-> NoRes, guard |-> NoGuard],
            sys |-> g.sys,
            rel |-> <<Release(tty, g.sys, g.dev, as_raw_fd(tty))>>]

\* as drop, but with an inner field that unwinding releases as well
TtyWithGuard_drop_always(d, x, fails) ==
  LET g == TtyModeGuard_drop(d, x.guard, fails)
  IN  [res |-> g.res, dev |-> g.dev, sys |-> g.sys,
       rel |-> <<Release(x.inner, g.sys, g.dev, x.guard.fd)>>]

\* as drop, but with a guard field that is dropped again after the body
TtyWithGuard_drop_twice(d, x, fails) ==
  LET g == TtyModeGuard_drop(d, x.guard, fails)
      h == TtyModeGuard_drop(g.dev, x.guard, fails)
  IN  IF g.res = "panic"
      THEN [res |-> "panic", dev |-> g.dev, sys |-> g.sys, rel |-> <<>>]
      ELSE [res |-> h.res, dev |-> h.dev, sys |-> g.sys \o h.sys,
            rel |-> <<Release(x.inner, g.sys, g.dev, x.guard.fd)>>]

\* as drop, but releasing the fields in declaration order: inner, then guard
TtyWithGuard_drop_inner_first(d, x, fails) ==
  LET r == Release(x.inner, <<>>, d, x.guard.fd)
      g == TtyModeGuard_drop(d, x.guard, fails)
  IN  [res |-> g.res, dev |-> g.dev, sys |-> g.sys, rel |-> <<r>>]

TtyWithGuard_drop(d, x, fails) ==
  LET g == TtyModeGuard_drop(d, x.guard, fails)
  IN  IF g.res = "panic"
      THEN [res |-> "panic", dev |-> g.dev, sys |-> g.sys, rel |-> <<>>]
      ELSE [res |-> "ok", dev |-> g.dev, sys |-> g.sys,
            rel |-> <<Release(x.inner, g.sys, g.dev, x.guard.fd)>>]

TtyWithGuard_modify_mode(d, x, f, fails) ==
  LET m == TtyModeGuard_modify_mode(d, x.guard, f, fails)
  IN  [res |-> m.res, dev |-> m.dev, x |-> [x EXCEPT !.guard = m.guard],
       sys |-> m.sys]

TtyWithGuard_set_raw_mode(d, x, fails) ==
  LET m == TtyModeGuard_set_raw_mode(d, x.guard, fails)
  IN  [res |-> m.res, dev |-> m.dev, x |-> [x EXCEPT !.guard = m.guard],
       sys |-> m.sys]

guard_mode(d, tty, fails) == TtyWithGuard_new(d, tty, fails)

RawReader_read(x) ==
  LET r == R_read(deref_mut(x))
  IN  [val |-> r.val, x |-> deref_mut_set(x, r.r)]

\* as into_raw_mode, but returning the error without dropping x
into_raw_mode_leak(d, tty, fails1, fails2, fails3) ==
  LET n == TtyWithGuard_new(d, tty, fails1)
      m == TtyWithGuard_set_raw_mode(n.dev, n.x, fails2)
  IN  IF n.res = "err"
      THEN [res |-> "err", dev |-> n.dev, x |-> n.x, sys |-> n.sys,
            rel |-> n.rel, st |-> "Failed"]
      ELSE [res |-> m.res, dev |-> m.dev, x |-> m.x, sys |-> n.sys \o m.sys,
            rel |-> <<>>,
            st |-> IF m.res = "ok" THEN "Switched" ELSE "Captured"]

\* fails1, fails2, fails3: the fate of the read, of the raw-mode write and of
\* the restore write made when x is dropped on the error path
into_raw_mode(d, tty, fails1, fails2, fails3) ==
  LET n == TtyWithGuard_new(d, tty, fails1)
  IN  IF n.res = "err"
      THEN [res |-> "err", dev |-> n.dev, x |-> n.x, sys |-> n.sys,
            rel |-> n.rel, st |-> "Failed"]
      ELSE LET m == TtyWithGuard_set_raw_mode(n.dev, n.x, fails2)
           IN  IF m.res = "ok"
               THEN [res |-> "ok", dev |-> m.dev, x |-> m.x,
                     sys |-> n.sys \o m.sys, rel |-> <<>>, st |-> "Switched"]
               ELSE LET q == TtyWithGuard_drop(m.dev, m.x, fails3)
                        sys == n.sys \o m.sys \o q.sys
                    IN  [res |-> IF q.res = "panic" THEN "panic" ELSE "err",
                         dev |-> q.dev, x |-> m.x, sys |-> sys,
                         rel |-> [i \in 1..Len(q.rel) |->
                                    [q.rel[i] EXCEPT
                                       !.at = @ + Len(n.sys \o m.sys)]],
                         st |-> IF q.res = "panic" THEN "Panicked"
                                                   ELSE "Released"]

\* -------------------------------------------------------------------- state
VARIABLES
  dev,       \* [TtyFds -> Termios]: the attributes each terminal has now
  x,         \* per slot: the object's fields, [inner, guard]
  kind,      \* per slot: "none", "guard" (bare TtyModeGuard), "wrapper"
  st,        \* per slot: Uncaptured, Captured, Switched, Released, Failed,
             \*           Panicked
  pre,       \* per slot: attributes of the handle's device just before the
             \*           constructor was called
  hnd,       \* per slot: the handle the constructor was called with
  nGet,      \* per slot: tcgetattr calls made for the object
  nSet,      \* per slot: tcsetattr calls made by its mode switches
  nRestore,  \* per slot: tcsetattr calls made by its drop
  rels,      \* per slot: the releases of its resource T, in order
  shadow,    \* per slot: the resource as it is when every operation made
             \*           through the wrapper is made on the resource itself
  hist,      \* per slot: the mode switches that succeeded, in order
  last,      \* the operation made by the latest step, its outcome, and
             \* the attributes the devices had before it
  a,         \* an attribute value raw_terminal_attr is applied to
  applied    \* how often raw_terminal_attr has been applied to a

vars == <<dev, x, kind, st, pre, hnd, nGet, nSet, nRestore, rels, shadow, hist,
          last, a, applied>>

LiveSt == {"Captured", "Switched"}

NoX == [inner |-> NoRes, guard |-> NoGuard]

NoOp ==
  [op |-> "none", slot |-> 0, f |-> "none", res |-> "none", sys |-> <<>>,
   val |-> 0, ref |-> 0, before |-> [fd \in TtyFds |-> Zeroed]]

Count(sys, tags) == Cardinality({i \in 1..Len(sys) : sys[i] \in tags})

Init ==
  /\ dev \in [TtyFds -> InitAttrs]
  /\ x = [s \in Slots |-> NoX]
  /\ kind = [s \in Slots |-> "none"]
  /\ st = [s \in Slots |-> "Uncaptured"]
  /\ pre = [s \in Slots |-> Zeroed]
  /\ hnd = [s \in Slots |-> -1]
  /\ nGet = [s \in Slots |-> 0]
  /\ nSet = [s \in Slots |-> 0]
  /\ nRestore = [s \in Slots |-> 0]
  /\ rels = [s \in Slots |-> <<>>]
  /\ shadow = [s \in Slots |-> NoRes]
  /\ hist = [s \in Slots |-> <<>>]
  /\ last = NoOp
  /\ a = Zeroed
  /\ applied = 0

\* bookkeeping common to every operation on slot s
Account(s, op, f, res, sys, val, ref) ==
  /\ nGet' = [nGet EXCEPT ![s] = @ + Count(sys, {"get_ok", "get_err"})]
  /\ nSet' = [nSet EXCEPT ![s] = @ + Count(sys, {"set_ok", "set_err"})]
  /\ nRestore' =
       [nRestore EXCEPT ![s] = @ + Count(sys, {"restore_ok", "restore_err"})]
  /\ last' = [op |-> op, slot |-> s, f |-> f, res |-> res, sys |-> sys,
              val |-> val, ref |-> ref, before |-> dev]
  /\ UNCHANGED <<a, applied>>

\* slots are taken in order
Fresh(s) == st[s] = "Uncaptured" /\ \A t \in Slots : t < s => st[t] # "Uncaptured"

\* TtyModeGuard::new(fd) called by the client
GuardNew(s, fd, fails) ==
  LET n == TtyModeGuard_new(dev, fd, fails)
  IN  /\ Fresh(s)
      /\ dev' = n.dev
      /\ x' = [x EXCEPT ![s] = [inner |-> NoRes, guard |-> n.guard]]
      /\ kind' = [kind EXCEPT ![s] = "guard"]
      /\ st' = [st EXCEPT ![s] = IF n.res = "ok" THEN "Captured" ELSE "Failed"]
      /\ pre' = [pre EXCEPT ![s] = Live(dev, fd)]
      /\ hnd' = [hnd EXCEPT ![s] = fd]
      /\ Account(s, "TtyModeGuard::new", "none", n.res, n.sys, 0, 0)
      /\ UNCHANGED <<rels, shadow, hist>>

\* TtyWithGuard::new(tty) / tty.guard_mode() called by the client
WrapperNew(s, op, fd, fails) ==
  LET tty == Resource(fd)
      n == IF op = "guard_mode" THEN guard_mode(dev, tty, fails)
                                ELSE TtyWithGuard_new(dev, tty, fails)
  IN  /\ Fresh(s)
      /\ dev' = n.dev
      /\ x' = [x EXCEPT ![s] = n.x]
      /\ kind' = [kind EXCEPT ![s] = "wrapper"]
      /\ st' = [st EXCEPT ![s] = IF n.res = "ok" THEN "Captured" ELSE "Failed"]
      /\ pre' = [pre EXCEPT ![s] = Live(dev, fd)]
      /\ hnd' = [hnd EXCEPT ![s] = fd]
      /\ rels' = [rels EXCEPT ![s] = @ \o n.rel]
      /\ shadow' = [shadow EXCEPT ![s] = IF n.res = "ok" THEN tty ELSE NoRes]
      /\ Account(s, op, "none", n.res, n.sys, 0, 0)
      /\ UNCHANGED hist

\* tty.into_raw_mode() called by the client
IntoRawMode(s, fd, fails1, fails2, fails3) ==
  LET tty == Resource(fd)
      n == into_raw_mode(dev, tty, fails1, fails2, fails3)
  IN  /\ Fresh(s)
      /\ dev' = n.dev
      /\ x' = [x EXCEPT ![s] = n.x]
      /\ kind' = [kind EXCEPT ![s] = "wrapper"]
      /\ st' = [st EXCEPT ![s] = n.st]
      /\ pre' = [pre EXCEPT ![s] = Live(dev, fd)]
      /\ hnd' = [hnd EXCEPT ![s] = fd]
      /\ rels' = [rels EXCEPT ![s] = @ \o n.rel]
      /\ shadow' = [shadow EXCEPT ![s] = IF n.res = "ok" THEN tty ELSE NoRes]
      /\ hist' = [hist EXCEPT ![s] = IF n.res = "ok" THEN <<"raw">> ELSE @]
      /\ Account(s, "into_raw_mode", "none", n.res, n.sys, 0, 0)

\* set_raw_mode() on a bare guard or, forwarded, on a wrapper
SetRawMode(s, fails) ==
  LET m == IF kind[s] = "wrapper"
           THEN TtyWithGuard_set_raw_mode(dev, x[s], fails)
           ELSE LET g == TtyModeGuard_set_raw_mode(dev, x[s].guard, fails)
                IN  [res |-> g.res, dev |-> g.dev,
                     x |-> [x[s] EXCEPT !.guard = g.guard], sys |-> g.sys]
  IN  /\ st[s] \in LiveSt
      /\ nSet[s] < MaxSwitch
      /\ dev' = m.dev
      /\ x' = [x EXCEPT ![s] = m.x]
      /\ st' = [st EXCEPT ![s] = IF m.res = "ok" THEN "Switched" ELSE @]
      /\ hist' = [hist EXCEPT ![s] = IF m.res = "ok" THEN Append(@, "raw")
                                                     ELSE @]
      /\ Account(s, "set_raw_mode", "none", m.res, m.sys, 0, 0)
      /\ UNCHANGED <<kind, pre, hnd, rels, shadow>>

\* modify_mode(f) on a bare guard or, forwarded, on a wrapper
ModifyMode(s, f, fails) ==
  LET m == IF kind[s] = "wrapper"
           THEN TtyWithGuard_modify_mode(dev, x[s], f, fails)
           ELSE LET g == TtyModeGuard_modify_mode(dev, x[s].guard, f, fails)
                IN  [res |-> g.res, dev |-> g.dev,
                     x |-> [x[s] EXCEPT !.guard = g.guard], sys |-> g.sys]
  IN  /\ st[s] \in LiveSt
      /\ nSet[s] < MaxSwitch
      /\ dev' = m.dev
      /\ x' = [x EXCEPT ![s] = m.x]
      /\ st' = [st EXCEPT ![s] = IF m.res = "ok" THEN "Switched" ELSE @]
      /\ hist' = [hist EXCEPT ![s] = IF m.res = "ok" THEN Append(@, f)
                                                     ELSE @]
      /\ Account(s, "modify_mode", f, m.res, m.sys, 0, 0)
      /\ UNCHANGED <<kind, pre, hnd, rels, shadow>>

\* a bare TtyModeGuard goes out of scope
GuardDrop(s, fails) ==
  LET q == TtyModeGuard_drop(dev, x[s].guard, fails)
  IN  /\ kind[s] = "guard"
      /\ st[s] \in LiveSt
      /\ dev' = q.dev
      /\ st' = [st EXCEPT ![s] = IF q.res = "ok" THEN "Released"
                                                  ELSE "Panicked"]
      /\ Account(s, "drop", "none", q.res, q.sys, 0, 0)
      /\ UNCHANGED <<x, kind, pre, hnd, rels, shadow, hist>>

\* a TtyWithGuard goes out of scope
WrapperDrop(s, fails) ==
  LET q == TtyWithGuard_drop(dev, x[s], fails)
  IN  /\ kind[s] = "wrapper"
      /\ st[s] \in LiveSt
      /\ dev' = q.dev
      /\ st' = [st EXCEPT ![s] = IF q.res = "ok" THEN "Released"
                                                  ELSE "Panicked"]
      /\ rels' = [rels EXCEPT ![s] = @ \o q.rel]
      /\ Account(s, "drop", "none", q.res, q.sys, 0, 0)
      /\ UNCHANGED <<x, kind, pre, hnd, shadow, hist>>

\* an operation of T made through the wrapper: (*w).as_raw_fd() through
\* Deref, w.read(buf) and w.write(buf) through DerefMut, and read through a
\* RawReader around the wrapper
Forward(s, op) ==
  LET viaVal ==
        CASE op = "as_raw_fd" -> as_raw_fd(deref(x[s]))
          [] op = "read" -> R_read(deref_mut(x[s])).val
          [] op = "write" -> R_write(deref_mut(x[s])).val
          [] op = "RawReader::read" -> RawReader_read(x[s]).val
      viaX ==
        CASE op = "as_raw_fd" -> x[s]
          [] op = "read" -> deref_mut_set(x[s], R_read(deref_mut(x[s])).r)
          [] op = "write" -> deref_mut_set(x[s], R_write(deref_mut(x[s])).r)
          [] op = "RawReader::read" -> RawReader_read(x[s]).x
      direct ==
        CASE op = "as_raw_fd" -> [val |-> as_raw_fd(shadow[s]), r |-> shadow[s]]
          [] op = "write" -> R_write(shadow[s])
          [] OTHER -> R_read(shadow[s])
  IN  /\ kind[s] = "wrapper"
      /\ st[s] \in LiveSt
      /\ op = "write" => x[s].inner.wr < MaxIO
      /\ x' = [x EXCEPT ![s] = viaX]
      /\ shadow' = [shadow EXCEPT ![s] = direct.r]
      /\ Account(s, op, "none", "ok", <<>>, viaVal, direct.val)
      /\ UNCHANGED <<dev, kind, st, pre, hnd, rels, hist>>

\* *w = other: the client replaces the resource through DerefMut
ReplaceInner(s, fd) ==
  /\ kind[s] = "wrapper"
  /\ st[s] \in LiveSt
  /\ x[s].inner # Resource(fd)
  /\ x' = [x EXCEPT ![s] = deref_mut_set(x[s], Resource(fd))]
  /\ shadow' = [shadow EXCEPT ![s] = Resource(fd)]
  /\ Account(s, "replace", "none", "ok", <<>>, 0, 0)
  /\ UNCHANGED <<dev, kind, st, pre, hnd, rels, hist>>

\* another program changes the attributes of a terminal
OutsideSet(fd, t) ==
  /\ dev[fd] # t
  /\ dev' = [dev EXCEPT ![fd] = t]
  /\ last' = [NoOp EXCEPT !.op = "outside", !.before = dev]
  /\ UNCHANGED <<x, kind, st, pre, hnd, nGet, nSet, nRestore, rels, shadow, hist,
                 a, applied>>

\* One object, bare guard or wrapper, through its whole life; whatever else
\* touches the terminal meanwhile is OutsideSet.
Next ==
  \/ \E fd \in Fds, fails \in BOOLEAN : GuardNew(1, fd, fails)
  \/ \E op \in {"TtyWithGuard::new", "guard_mode"}, fd \in Fds,
        fails \in BOOLEAN : WrapperNew(1, op, fd, fails)
  \/ \E fd \in Fds, f1, f2, f3 \in BOOLEAN : IntoRawMode(1, fd, f1, f2, f3)
  \/ \E fails \in BOOLEAN : SetRawMode(1, fails)
  \/ \E f \in Transforms, fails \in BOOLEAN : ModifyMode(1, f, fails)
  \/ \E fails \in BOOLEAN : GuardDrop(1, fails)
  \/ \E fails \in BOOLEAN : WrapperDrop(1, fails)
  \/ \E op \in {"as_raw_fd", "read", "write", "RawReader::read"} :
        Forward(1, op)
  \/ \E fd \in Fds : ReplaceInner(1, fd)
  \/ \E fd \in TtyFds, t \in OutsideAttrs : OutsideSet(fd, t)

Spec == Init /\ [][Next]_vars

\* ------------------------------------------- two guards in the same program
\* the closure the two guards' modify_mode calls are given: one that raw mode
\* does not undo
TwoTransforms == {"flipnl"}

NextTwo ==
  \/ \E s \in Slots, fd \in Fds, fails \in BOOLEAN : GuardNew(s, fd, fails)
  \/ \E s \in Slots, fails \in BOOLEAN : SetRawMode(s, fails)
  \/ \E s \in Slots, f \in TwoTransforms, fails \in BOOLEAN :
        ModifyMode(s, f, fails)
  \/ \E s \in Slots, fails \in BOOLEAN : GuardDrop(s, fails)

SpecTwo == Init /\ [][NextTwo]_vars

\* ------------------------------------------- raw_terminal_attr on its own
MaxApply == 2

InitAttr ==
  /\ a \in Termios
  /\ applied = 0
  /\ dev = [fd \in TtyFds |-> Cooked]
  /\ x = [s \in Slots |-> NoX]
  /\ kind = [s \in Slots |-> "none"]
  /\ st = [s \in Slots |-> "Uncaptured"]
  /\ pre = [s \in Slots |-> Zeroed]
  /\ hnd = [s \in Slots |-> -1]
  /\ nGet = [s \in Slots |-> 0]
  /\ nSet = [s \in Slots |-> 0]
  /\ nRestore = [s \in Slots |-> 0]
  /\ rels = [s \in Slots |-> <<>>]
  /\ shadow = [s \in Slots |-> NoRes]
  /\ hist = [s \in Slots |-> <<>>]
  /\ last = NoOp

ApplyRaw ==
  /\ applied < MaxApply
  /\ a' = raw_terminal_attr(a)
  /\ applied' = applied + 1
  /\ UNCHANGED <<dev, x, kind, st, pre, hnd, nGet, nSet, nRestore, rels, shadow,
                 hist, last>>

NextAttr == ApplyRaw

SpecAttr == InitAttr /\ [][NextAttr]_vars

\* =================================================================== claims
GuardFd(s) == x[s].guard.fd

Did(s, ops) == last.slot = s /\ last.op \in ops

Range(q) == {q[i] : i \in 1..Len(q)}

OthersUntouched(s) ==
  \A fd \in TtyFds \ {GuardFd(s)} : dev[fd] = last.before[fd]

\* C1: when a guard has been released (its drop returned), whatever mode
\* switches were made on it before, the device has the attributes it had just
\* before the guard was constructed, and no other device was touched.
RestoreFidelity ==
  \A s \in Slots :
    (last.slot = s /\ st[s] = "Released")
      => /\ Live(dev, GuardFd(s)) = pre[s]
         /\ OthersUntouched(s)

RestoreFidelityWitness ==
  \E s \in Slots :
    /\ Did(s, {"drop"}) /\ st[s] = "Released"
    /\ Len(hist[s]) >= 2
    /\ last.before[GuardFd(s)] # pre[s]
    /\ dev[GuardFd(s)] = pre[s]

\* C2: a modify_mode(g) whose write succeeds leaves the device with
\* g(original), also when an earlier modify_mode(f) succeeded and
\* g(f(original)) differs from it.
NonCumulative ==
  \A s \in Slots :
    (Did(s, {"modify_mode"}) /\ last.res = "ok")
      => dev[GuardFd(s)] = Apply(last.f, pre[s])

NonCumulativeWitness ==
  \E s \in Slots :
    /\ Did(s, {"modify_mode"}) /\ last.res = "ok"
    /\ Len(hist[s]) >= 2
    /\ LET f == hist[s][Len(hist[s]) - 1]
       IN  /\ f \in Transforms
           /\ last.before[GuardFd(s)] = Apply(f, pre[s])
           /\ Apply(last.f, Apply(f, pre[s])) # Apply(last.f, pre[s])

\* C3: a set_raw_mode whose write succeeds leaves the device with
\* derive_raw(original) whatever the device had before, so a repeated call
\* changes nothing; a release after a raw switch gives back the original.
SetRawFromOriginal ==
  \A s \in Slots :
    /\ (Did(s, {"set_raw_mode"}) /\ last.res = "ok")
         => dev[GuardFd(s)] = raw_terminal_attr(pre[s])
    /\ (Did(s, {"drop"}) /\ last.res = "ok" /\ "raw" \in Range(hist[s]))
         => dev[GuardFd(s)] = pre[s]

SetRawFromOriginalWitness ==
  \E s \in Slots :
    /\ Did(s, {"set_raw_mode"}) /\ last.res = "ok"
    /\ Len(hist[s]) >= 2
    /\ raw_terminal_attr(last.before[GuardFd(s)]) # raw_terminal_attr(pre[s])
    /\ dev[GuardFd(s)] # pre[s]

\* C4: when the attribute read fails, each of the four constructors returns
\* the error after that one call, no device changes, and no attribute write
\* is ever made for the object.
ReadFailureSurfaces ==
  \A s \in Slots :
    /\ (/\ Did(s, {"TtyModeGuard::new", "TtyWithGuard::new", "guard_mode",
                   "into_raw_mode"})
        /\ last.sys[1] = "get_err")
         => /\ last.res = "err"
            /\ last.sys = <<"get_err">>
            /\ dev = last.before
            /\ st[s] = "Failed"
    /\ st[s] = "Failed" => (nSet[s] = 0 /\ nRestore[s] = 0)

ReadFailureSurfacesWitness ==
  \E s \in Slots :
    /\ Did(s, {"into_raw_mode"})
    /\ last.sys = <<"get_err">>
    /\ last.res = "err"
    /\ nSet[s] = 0 /\ nRestore[s] = 0

\* C5: when the read succeeds and the raw-mode write fails, into_raw_mode
\* returns an error to its caller and the guard is released.
IntoRawModeReturnsError ==
  \A s \in Slots :
    (/\ Did(s, {"into_raw_mode"})
     /\ Len(last.sys) >= 2
     /\ last.sys[1] = "get_ok" /\ last.sys[2] = "set_err")
      => (last.res = "err" /\ st[s] = "Released")

\* C6: a released wrapper has released its resource once, after the restore
\* write, and at that moment the device had the original attributes.
TeardownOrder ==
  \A s \in Slots :
    (kind[s] = "wrapper" /\ st[s] = "Released")
      => /\ Len(rels[s]) = 1
         /\ rels[s][1].seen = pre[s]
         /\ rels[s][1].fd = x[s].inner.fd
         /\ last.slot = s
              => /\ rels[s][1].at = Len(last.sys)
                 /\ last.sys[Len(last.sys)] = "restore_ok"

TeardownOrderWitness ==
  \E s \in Slots :
    /\ Did(s, {"drop"}) /\ kind[s] = "wrapper" /\ st[s] = "Released"
    /\ last.before[GuardFd(s)] # pre[s]
    /\ rels[s][1].seen = pre[s]

\* C7: a restore write that fails ends in a panic; no object is in state
\* Released unless its restore write succeeded.
RestoreFailurePanics ==
  \A s \in Slots :
    /\ (last.slot = s /\ "restore_err" \in Range(last.sys))
         => (last.res = "panic" /\ st[s] = "Panicked")
    /\ (last.slot = s /\ st[s] = "Released")
         => (Len(last.sys) >= 1 /\ last.sys[Len(last.sys)] = "restore_ok")
    /\ st[s] = "Released" => nRestore[s] = 1

RestoreFailurePanicsWitness ==
  \E s \in Slots :
    /\ Did(s, {"drop"})
    /\ last.sys = <<"restore_err">>
    /\ last.res = "panic"
    /\ st[s] = "Panicked"

\* C8: TtyModeGuard::new, TtyWithGuard::new and guard_mode make one attribute
\* read and no write; on success the object is Captured, holds the attributes
\* the device had, and every device is as it was.
ConstructionOnlyCaptures ==
  \A s \in Slots :
    Did(s, {"TtyModeGuard::new", "TtyWithGuard::new", "guard_mode"})
      => /\ Len(last.sys) = 1
         /\ nGet[s] = 1 /\ nSet[s] = 0 /\ nRestore[s] = 0
         /\ dev = last.before
         /\ last.res = "ok"
              => /\ st[s] = "Captured"
                 /\ x[s].guard.ios = pre[s]
                 /\ dev[GuardFd(s)] = pre[s]

ConstructionOnlyCapturesWitness ==
  \E s \in Slots :
    /\ Did(s, {"guard_mode"}) /\ last.res = "ok"
    /\ st[s] = "Captured"
    /\ dev[GuardFd(s)] = pre[s]
    /\ raw_terminal_attr(pre[s]) # pre[s]

\* C9: applying raw_terminal_attr to a value it produced changes nothing.
RawIdempotent == applied >= 1 => raw_terminal_attr(a) = a

RawIdempotentWitness ==
  /\ applied = 2
  /\ "IXOFF" \in a.iflag /\ "ONLCR" \in a.oflag /\ "TOSTOP" \in a.lflag

\* C10: an operation of the resource made through the wrapper returns what
\* it returns on the resource itself and leaves the resource as it would be,
\* makes no attribute call, changes no device and leaves the stored original.
TransparentForwarding ==
  \A s \in Slots :
    Did(s, {"as_raw_fd", "read", "write", "RawReader::read", "replace"})
      => /\ last.val = last.ref
         /\ x[s].inner = shadow[s]
         /\ last.sys = <<>>
         /\ dev = last.before
         /\ x[s].guard.ios = pre[s]

TransparentForwardingWitness ==
  \E s \in Slots :
    /\ Did(s, {"read"})
    /\ last.val = 0 /\ last.ref = 0
    /\ x[s].inner.rd = MaxIO
    /\ st[s] = "Switched"

\* C11: a live wrapper's guard holds the handle of the resource the wrapper
\* owns, whatever was done through the wrapper.
WrapperHandleInvariant ==
  \A s \in Slots :
    (kind[s] = "wrapper" /\ st[s] \in LiveSt)
      => x[s].guard.fd = as_raw_fd(x[s].inner)

\* C12: from construction on, the guard holds the attributes read and the
\* handle given at construction, whether mode switches succeed or fail.
StoredOriginalInvariant ==
  \A s \in Slots :
    st[s] \in LiveSt \cup {"Released", "Panicked"}
      => x[s].guard = [ios |-> pre[s], fd |-> hnd[s]]

StoredOriginalInvariantWitness ==
  \E s \in Slots :
    /\ Did(s, {"set_raw_mode", "modify_mode"}) /\ last.res = "err"
    /\ Len(hist[s]) >= 1
    /\ dev[hnd[s]] # pre[s]
    /\ x[s].guard = [ios |-> pre[s], fd |-> hnd[s]]

\* C13: a live guard has made no restore write; a guard that was dropped has
\* made exactly one, with or without a mode switch before; an object that
\* was never constructed makes none; the restore write is the last attribute
\* call made for the object.
ExactlyOnceRelease ==
  \A s \in Slots :
    /\ st[s] \in LiveSt => nRestore[s] = 0
    /\ st[s] \in {"Released", "Panicked"} => (nRestore[s] = 1 /\ nGet[s] = 1)
    /\ st[s] \in {"Uncaptured", "Failed"} => nRestore[s] = 0
    /\ (last.slot = s /\ st[s] \in {"Released", "Panicked"})
         => last.sys[Len(last.sys)] \in {"restore_ok", "restore_err"}

ExactlyOnceReleaseWitness ==
  \E s \in Slots :
    /\ Did(s, {"drop"}) /\ last.res = "ok"
    /\ hist[s] = <<>>
    /\ nSet[s] >= 1
    /\ nRestore[s] = 1

\* C14: a mode switch whose write fails returns the error after that one
\* write, changes no device, leaves the guard live and unchanged; switches
\* made after it work, and the release writes the original.
SwitchFailureSurfaces ==
  \A s \in Slots :
    /\ (Did(s, {"set_raw_mode", "modify_mode"}) /\ last.res # "ok")
         => /\ last.res = "err"
            /\ last.sys = <<"set_err">>
            /\ dev = last.before
            /\ st[s] \in LiveSt
            /\ x[s].guard.ios = pre[s]
    /\ (Did(s, {"set_raw_mode", "modify_mode"}) /\ last.res = "ok")
         => last.sys = <<"set_ok">>
    /\ (Did(s, {"drop"}) /\ last.res = "ok" /\ nSet[s] > Len(hist[s]))
         => dev[hnd[s]] = pre[s]

SwitchFailureSurfacesWitness ==
  \E s \in Slots :
    /\ Did(s, {"drop"}) /\ last.res = "ok"
    /\ nSet[s] > Len(hist[s])
    /\ Len(hist[s]) >= 1
    /\ last.before[hnd[s]] # pre[s]
    /\ dev[hnd[s]] = pre[s]

\* C15: once two guards on the same handle have both been released, the
\* device has the attributes captured by the one released last; when that
\* one captured what the other had switched to, the device is not back at
\* what it had before the first was constructed.
LastWriterWins ==
  (st[1] = "Released" /\ st[2] = "Released" /\ hnd[1] = hnd[2])
    => /\ last.op = "drop"
       /\ dev[hnd[1]] = pre[last.slot]
       /\ (last.slot = 2 /\ pre[2] # pre[1]) => dev[hnd[1]] # pre[1]

LastWriterWinsWitness ==
  /\ st[1] = "Released" /\ st[2] = "Released" /\ hnd[1] = hnd[2]
  /\ last.slot = 2
  /\ Len(hist[1]) >= 1
  /\ pre[2] # pre[1]
  /\ dev[hnd[1]] = pre[2]

\* C16: when the device holds attributes another program has set, a release
\* still leaves it with the guard's original, and a mode switch with the
\* transform of the original.
ClobbersOutside ==
  \A s \in Slots :
    (/\ Did(s, {"drop", "set_raw_mode", "modify_mode"})
     /\ last.res = "ok"
     /\ last.before[hnd[s]] \in OutsideAttrs)
      => dev[hnd[s]] =
           CASE last.op = "drop" -> pre[s]
             [] last.op = "set_raw_mode" -> raw_terminal_attr(pre[s])
             [] OTHER -> Apply(last.f, pre[s])

ClobbersOutsideWitness ==
  \E s \in Slots :
    /\ Did(s, {"drop"}) /\ last.res = "ok"
    /\ last.before[hnd[s]] \in OutsideAttrs
    /\ last.before[hnd[s]] # pre[s]
    /\ Len(hist[s]) >= 1
    /\ dev[hnd[s]] = pre[s]

\* C17: when TtyWithGuard::new, guard_mode or into_raw_mode returns an error,
\* every device has the attributes it had before the call and the call has
\* left no live guard.
ErrorLeavesDevice ==
  \A s \in Slots :
    (Did(s, {"TtyWithGuard::new", "guard_mode", "into_raw_mode"})
       /\ last.res = "err")
      => /\ dev = last.before
         /\ st[s] \in {"Failed", "Released"}
         /\ st[s] = "Released" => nRestore[s] = 1

ErrorLeavesDeviceWitness ==
  \E s \in Slots :
    /\ Did(s, {"into_raw_mode"}) /\ last.res = "err"
    /\ last.sys = <<"get_ok", "set_err", "restore_ok">>
    /\ st[s] = "Released"
    /\ dev = last.before

\* C18: a wrapper's resource is released at most once: not while the
\* wrapper is live, not when the restore write failed, and once, after the
\* restore write, when it succeeded.
ResourceReleasedOnce ==
  \A s \in Slots :
    kind[s] = "wrapper"
      => /\ Len(rels[s]) <= 1
         /\ st[s] \in LiveSt \cup {"Panicked"} => rels[s] = <<>>
         /\ st[s] = "Released" => Len(rels[s]) = 1
         /\ (st[s] = "Released" /\ last.slot = s)
              => /\ rels[s][1].at >= 1
                 /\ last.sys[rels[s][1].at] = "restore_ok"

ResourceReleasedOnceWitness ==
  \E s \in Slots :
    /\ Did(s, {"drop"}) /\ kind[s] = "wrapper"
    /\ last.res = "panic"
    /\ rels[s] = <<>>
    /\ x[s].inner # NoRes

\* C19: when the read fails, TtyWithGuard::new, guard_mode and into_raw_mode
\* release the resource they were given, right after the read, create no
\* guard and make no attribute write.
ConstructionConsumes ==
  \A s \in Slots :
    (/\ Did(s, {"TtyWithGuard::new", "guard_mode", "into_raw_mode"})
     /\ last.sys[1] = "get_err")
      => /\ last.res = "err"
         /\ Len(rels[s]) = 1
         /\ rels[s][1].fd = hnd[s]
         /\ rels[s][1].at = 1
         /\ x[s] = NoX
         /\ nSet[s] = 0 /\ nRestore[s] = 0

ConstructionConsumesWitness ==
  \E s \in Slots :
    /\ Did(s, {"guard_mode"}) /\ last.res = "err"
    /\ hnd[s] \in TtyFds
    /\ Len(rels[s]) = 1
    /\ x[s] = NoX

====
